---- MODULE Spec2Model ----
(***************************************************************************)
(* Batch iteration over a nullable primitive array                         *)
(* (src/src/array/primitive_array/simd.rs): PrimitiveArray::batch_iter,    *)
(* BatchIter::next, the FromIterator collector and the Sum adapter.        *)
(*                                                                         *)
(* Array indices are 0-based as in the source; TLA+ sequences are 1-based, *)
(* so element i of the source is s[i + 1] here.                            *)
(***************************************************************************)
EXTENDS Integers, Sequences, FiniteSets

VARIABLES
    array,      \* the PrimitiveArray iterated: [data, valid], valid[i+1] <=> element i is non-NULL
    N,          \* the const generic batch width of this run
    pc,         \* where the caller is: "start", "iter", "end", "panicked", "collected", "summed",
                \* and for a collector run over arbitrary items "c_start", "c_loop", "c_done"
    idx,        \* BatchIter.idx
    items,      \* the BatchItems the iterator has yielded so far, in order
    lastRead,   \* <<>> or <<[idx, off, n]>>: the cursor and the raw byte read (offset, count)
                \* of the latest next() that returned an item
    collected,  \* <<>> or <<a>>: the array from_iter returned
    total,      \* <<>> or <<s>>: the value sum returned
    input,      \* collector run: the BatchItems the source iterator will yield
    hint,       \* collector run: the source iterator's size_hint().0
    pos,        \* collector run: how many items the for loop has consumed
    builder     \* collector run: the PrimitiveArrayBuilder [data, valid, cap]

vars == <<array, N, pc, idx, items, lastRead, collected, total, input, hint, pos, builder>>

----------------------------------------------------------------------------
(* Bounds of the model *)

\* longest array iterated
MaxLen == 10
\* longest item sequence handed to the collector directly
MaxItems == 2

(* Program constants *)

\* std::mem::size_of::<usize>() on a 64-bit target
WordBytes == 8
WordBits == WordBytes * 8

\* lane counts with LaneCount<N>: SupportedLaneCount
Lanes == {1, 2, 4, 8, 16, 32, 64}
\* widths batch_iter is called with: the supported lane counts and one above the word's bits
Widths == Lanes \cup {128}

----------------------------------------------------------------------------
(* Helpers *)

Min(a, b) == IF a <= b THEN a ELSE b
Max(a, b) == IF a >= b THEN a ELSE b
CeilDiv(a, b) == (a + b - 1) \div b

\* w >> i
RECURSIVE Shr(_, _)
Shr(w, i) == IF w = 0 \/ i = 0 THEN w ELSE Shr(w \div 2, i - 1)

\* bit i (least significant first) of the word w
Bit(w, i) == Shr(w, i) % 2 = 1

RECURSIVE SeqSum(_)
SeqSum(s) == IF s = <<>> THEN 0 ELSE Head(s) + SeqSum(Tail(s))

ArrayLen(a) == Len(a.data)

EmptyArray == [data |-> <<>>, valid |-> <<>>]

----------------------------------------------------------------------------
(* The arrays iterated *)

\* how the stored elements are chosen: "index" stores i at index i (the
\* (0..12) arrays of the tests), "nullzero" stores i + 1 in a non-NULL slot
\* and the default 0 in a NULL slot (an array collected from Options),
\* "signed" stores 1 and -1 alternately whatever the validity (a signed
\* element type whose NULL slots keep a stored value)
DataKinds == {"index", "nullzero", "signed"}

DataOf(kind, v) ==
    [i \in 1..Len(v) |->
        CASE kind = "index" -> i - 1
          [] kind = "nullzero" -> IF v[i] THEN i ELSE 0
          [] OTHER -> IF i % 2 = 1 THEN 1 ELSE -1]

Arrays ==
    UNION {{[data |-> DataOf(kind, v), valid |-> v] : kind \in DataKinds, v \in [1..l -> BOOLEAN]}
           : l \in 0..MaxLen}

\* The validity bitmap as the bytes behind valid.as_bitptr().pointer(): bit
\* i of the bitmap is bit (i mod 8) of byte (i div 8), least significant bit
\* first; the buffer holds the bitmap's length rounded up to whole bytes and
\* the bits past the array's length are 0 (the second batch of the test
\* batch_iter, read from a byte holding 4 elements, is 0b0000_0101).
ValidByte(a, j) ==
    LET bitAt(b) == IF 8 * j + b < ArrayLen(a) /\ a.valid[8 * j + b + 1] THEN 2 ^ b ELSE 0
    IN  bitAt(0) + bitAt(1) + bitAt(2) + bitAt(3) + bitAt(4) + bitAt(5) + bitAt(6) + bitAt(7)

ValidBuffer(a) == [j \in 1..CeilDiv(ArrayLen(a), 8) |-> ValidByte(a, j - 1)]

----------------------------------------------------------------------------
(* PrimitiveArray::batch_iter *)

\* variant: the assertion left out
AssertWidthMissing(n) == TRUE

\* assert!(N <= std::mem::size_of::<usize>() * 8)
AssertWidth(n) == n <= WordBytes * 8

BatchIterNew ==
    /\ pc = "start"
    /\ IF AssertWidth(N)
       THEN /\ pc' = "iter"
            /\ idx' = 0
       ELSE /\ pc' = "panicked"
            /\ UNCHANGED idx
    /\ UNCHANGED <<array, N, items, lastRead, collected, total, input, hint, pos, builder>>

----------------------------------------------------------------------------
(* BatchIter::next *)

\* variant: the end test off by one
ExhaustedStrict(a, i) == i > ArrayLen(a)

\* self.idx >= self.array.len()
Exhausted(a, i) == i >= ArrayLen(a)

\* (self.array.len() - self.idx).min(N)
BatchLen(a, n, i) == Min(ArrayLen(a) - i, n)

\* variant: the byte count rounded up from len + 1
NumBytesRoundedUp(len) == (len + 8) \div 8

\* (len + 7) >> 3
NumBytes(len) == (len + 7) \div 8

\* variant: the read always starts at the buffer's first byte
ByteOffsetZero(i) == 0

\* self.idx >> 3
ByteOffset(i) == i \div 8

\* slice::from_raw_parts(ptr.add(off), n): the n bytes at byte offset off of
\* the validity buffer. A byte outside the buffer is whatever memory holds.
RawReads(a, off, n) ==
    LET buf == ValidBuffer(a)
    IN  IF off + n <= Len(buf)
        THEN {[j \in 1..n |-> buf[off + j]]}
        ELSE {r \in [1..n -> 0..255] : \A j \in 1..n : off + j <= Len(buf) => r[j] = buf[off + j]}

\* usize::from_le_bytes of the zeroed word-sized array whose first bytes are raw
RECURSIVE FromLeBytes(_)
FromLeBytes(raw) == IF raw = <<>> THEN 0 ELSE Head(raw) + 256 * FromLeBytes(Tail(raw))

\* variant: the lanes copied from the start of the array, not from the cursor
LaneDataFromStart(a, n, i, len) == [l \in 1..n |-> IF l <= len THEN a.data[l] ELSE 0]

\* the lane vector: a fixed-size copy when len = N, else Simd::default()
\* with the first len lanes overwritten
LaneData(a, n, i, len) ==
    IF len = n
    THEN SubSeq(a.data, i + 1, i + n)
    ELSE [l \in 1..n |-> IF l <= len THEN a.data[i + l] ELSE 0]

\* variant: the mask shifted down to the cursor's bit within its byte
BatchItemShifted(a, n, i, raw) ==
    LET len == Min(ArrayLen(a) - i, n)
    IN  [data |-> LaneData(a, n, i, len), valid |-> Shr(FromLeBytes(raw), i % 8), len |-> len]

BatchItem(a, n, i, raw) ==
    LET len == BatchLen(a, n, i)
    IN  [data |-> LaneData(a, n, i, len), valid |-> FromLeBytes(raw), len |-> len]

\* self.idx += N
Advance(i, n) == i + n

\* the items one call of next can return at cursor i
NextItems(a, n, i) ==
    {BatchItem(a, n, i, raw) :
        raw \in RawReads(a, ByteOffset(i), NumBytes(BatchLen(a, n, i)))}

IterNext ==
    /\ pc = "iter"
    /\ IF Exhausted(array, idx)
       THEN /\ pc' = "end"
            /\ UNCHANGED <<idx, items, lastRead>>
       ELSE LET bytes == NumBytes(BatchLen(array, N, idx))
            IN  IF bytes > WordBytes
                THEN \* valid[..bytes] is out of range of the word-sized array
                     /\ pc' = "panicked"
                     /\ UNCHANGED <<idx, items, lastRead>>
                ELSE /\ \E e \in NextItems(array, N, idx) : items' = Append(items, e)
                     /\ lastRead' = <<[idx |-> idx, off |-> ByteOffset(idx), n |-> bytes]>>
                     /\ idx' = Advance(idx, N)
                     /\ pc' = "iter"
    /\ UNCHANGED <<array, N, collected, total, input, hint, pos, builder>>

----------------------------------------------------------------------------
(* FromIterator<BatchItem<T, N>> for PrimitiveArray<T> *)

\* PrimitiveArrayBuilder::with_capacity
WithCapacity(c) == [data |-> <<>>, valid |-> <<>>, cap |-> c]

\* variant: the mask read from bit 1 on
ValidBitsFromOne(e) == [i \in 1..e.len |-> Bit(e.valid, i)]

\* &BitSlice::<usize, Lsb0>::from_element(&e.valid)[..e.len]
ValidBits(e) == [i \in 1..e.len |-> Bit(e.valid, i - 1)]

\* variant: every lane appended, whatever len
DataPrefixAll(e) == e.data

\* &e.data[..e.len]
DataPrefix(e) == SubSeq(e.data, 1, e.len)

\* one pass of the for loop: extend_from_bitslice and extend_from_slice
Extend(b, e) ==
    [data  |-> b.data \o DataPrefix(e),
     valid |-> b.valid \o ValidBits(e),
     cap   |-> Max(b.cap, Len(b.data) + e.len)]

\* builder.finish()
Finish(b) == [data |-> b.data, valid |-> b.valid]

RECURSIVE ExtendAll(_, _)
ExtendAll(b, s) == IF s = <<>> THEN b ELSE ExtendAll(Extend(b, Head(s)), Tail(s))

\* from_iter over an iterator that yields s and reports the size hint h
FromIter(s, h, n) == Finish(ExtendAll(WithCapacity(h * n), s))

\* BatchIter does not override size_hint: the lower bound is the default 0
BatchIterSizeHint(a, n, i) == 0

\* the item sequences a BatchIter at cursor i can yield until it returns None
RECURSIVE BatchSeqs(_, _, _)
BatchSeqs(a, n, i) ==
    IF Exhausted(a, i)
    THEN {<<>>}
    ELSE {<<e>> \o rest : e \in NextItems(a, n, i), rest \in BatchSeqs(a, n, Advance(i, n))}

\* the cursor when that iterator has returned None
RECURSIVE FinalIdx(_, _, _)
FinalIdx(a, n, i) == IF Exhausted(a, i) THEN i ELSE FinalIdx(a, n, Advance(i, n))

\* a.batch_iter::<N>().collect(): from_iter drains a fresh iterator
Collect ==
    /\ pc = "iter"
    /\ items = <<>>
    /\ \E s \in BatchSeqs(array, N, idx) :
          /\ items' = s
          /\ collected' = <<FromIter(s, BatchIterSizeHint(array, N, idx), N)>>
    /\ idx' = FinalIdx(array, N, idx)
    /\ pc' = "collected"
    /\ UNCHANGED <<array, N, lastRead, total, input, hint, pos, builder>>

----------------------------------------------------------------------------
(* Sum<BatchItem<T, N>> for T *)

\* variant: only the lanes whose mask bit is set are added
ReduceSumValid(e) == SeqSum([l \in 1..Len(e.data) |-> IF Bit(e.valid, l - 1) THEN e.data[l] ELSE 0])

\* batch.data.reduce_sum()
ReduceSum(e) == SeqSum(e.data)

\* iter.map(|batch| batch.data.reduce_sum()).sum()
SumBatches(s) == SeqSum([k \in 1..Len(s) |-> ReduceSum(s[k])])

\* a.batch_iter::<N>().sum(): the adapter drains a fresh iterator
Sum ==
    /\ pc = "iter"
    /\ items = <<>>
    /\ \E s \in BatchSeqs(array, N, idx) :
          /\ items' = s
          /\ total' = <<SumBatches(s)>>
    /\ idx' = FinalIdx(array, N, idx)
    /\ pc' = "summed"
    /\ UNCHANGED <<array, N, lastRead, collected, input, hint, pos, builder>>

----------------------------------------------------------------------------
(* The batch iterator and its consumers *)

Init ==
    /\ array \in Arrays
    /\ N \in Widths
    /\ pc = "start"
    /\ idx = 0
    /\ items = <<>>
    /\ lastRead = <<>>
    /\ collected = <<>>
    /\ total = <<>>
    /\ input = <<>>
    /\ hint = 0
    /\ pos = 0
    /\ builder = WithCapacity(0)

Next == BatchIterNew \/ IterNext \/ Collect \/ Sum

Spec == Init /\ [][Next]_vars

----------------------------------------------------------------------------
(* The collector over an arbitrary sequence of BatchItems *)

\* widths of the items handed to the collector directly
CollectWidths == {1, 2}
\* lane vectors of width n over two distinct stored values
LaneVectors(n) == [1..n -> {1, 2}]
\* valid masks, with bits above the width 1 set in some of them
MaskVals == 0..3

BatchItems(n) == [data : LaneVectors(n), valid : MaskVals, len : 0..n]

ItemSeqs(n) == UNION {[1..k -> BatchItems(n)] : k \in 0..MaxItems}

InitCollect ==
    /\ N \in CollectWidths
    /\ input \in ItemSeqs(N)
    /\ hint \in {0, Len(input)}
    /\ pc = "c_start"
    /\ pos = 0
    /\ builder = WithCapacity(0)
    /\ collected = <<>>
    /\ array = EmptyArray
    /\ idx = 0
    /\ items = <<>>
    /\ lastRead = <<>>
    /\ total = <<>>

\* let mut builder = PrimitiveArrayBuilder::with_capacity(iter.size_hint().0 * N)
FromIterBegin ==
    /\ pc = "c_start"
    /\ builder' = WithCapacity(hint * N)
    /\ pc' = "c_loop"
    /\ UNCHANGED <<array, N, idx, items, lastRead, collected, total, input, hint, pos>>

\* for e in iter { ... }
FromIterStep ==
    /\ pc = "c_loop"
    /\ pos < Len(input)
    /\ builder' = Extend(builder, input[pos + 1])
    /\ pos' = pos + 1
    /\ UNCHANGED <<array, N, pc, idx, items, lastRead, collected, total, input, hint>>

\* builder.finish()
FromIterFinish ==
    /\ pc = "c_loop"
    /\ pos = Len(input)
    /\ collected' = <<Finish(builder)>>
    /\ pc' = "c_done"
    /\ UNCHANGED <<array, N, idx, items, lastRead, total, input, hint, pos, builder>>

NextCollect == FromIterBegin \/ FromIterStep \/ FromIterFinish

SpecCollect == InitCollect /\ [][NextCollect]_vars

----------------------------------------------------------------------------
(* Properties *)

\* the item the latest next() returned, and the call that returned it
LastItem == items[Len(items)]
LastCall == lastRead[1]
Stepped == lastRead # <<>>

\* a supported batch width: a multiple of 8 within the word
Supported(n) == n % 8 = 0 /\ n <= WordBits

\* the validity bit of element p of the array a (0-based)
ValidAt(a, p) == a.valid[p + 1]

\* bit p of the validity buffer of a: the validity bit inside the array, 0 in the padding
BufferBit(a, p) == p < ArrayLen(a) /\ a.valid[p + 1]

\* C1: collecting the complete batch sequence of an array, for a supported
\* width, gives back the array: same length, same elements, same validity.
RoundTrip ==
    (pc = "collected" /\ Supported(N)) =>
        /\ Len(collected[1].data) = ArrayLen(array)
        /\ collected[1].data = array.data
        /\ collected[1].valid = array.valid

RoundTripWitness ==
    /\ pc = "collected"
    /\ N = 8
    /\ Len(items) = 2
    /\ \E p, q \in 8..(ArrayLen(array) - 1) : ValidAt(array, p) /\ ~ValidAt(array, q)
    /\ collected[1] = array

\* C2: for a supported width, bit i (least significant first, i < len) of the mask
\* of the batch that starts at cursor idx is the array's validity bit at idx + i.
ValidityCorrect ==
    (Stepped /\ Supported(N)) =>
        \A i \in 0..(LastItem.len - 1) :
            Bit(LastItem.valid, i) = ValidAt(array, LastCall.idx + i)

ValidityCorrectWitness ==
    /\ Stepped
    /\ N = 8
    /\ LastCall.idx = 8
    /\ LastItem.len = 2
    /\ ValidAt(array, 8) /\ ~ValidAt(array, 9)
    /\ LastItem.valid = 1

\* the iterator has returned None
Drained == pc \in {"end", "collected", "summed"}

\* C3: an array of length L yields ceil(L/N) batches and then the end of the
\* sequence; every batch but the last has len = N, the last has
\* len = L - N*(ceil(L/N) - 1); every len is within 1..N; an empty array
\* yields no batch.
BatchCountShape ==
    LET L == ArrayLen(array)
        want == CeilDiv(L, N)
    IN  /\ \A k \in 1..Len(items) : 1 <= items[k].len /\ items[k].len <= N
        /\ \A k \in 1..(Len(items) - 1) : items[k].len = N
        /\ Len(items) <= want
        /\ pc = "iter" => (Exhausted(array, idx) <=> Len(items) = want)
        /\ Drained =>
              /\ Len(items) = want
              /\ want > 0 => items[want].len = L - N * (want - 1)
              /\ L = 0 => items = <<>>

BatchCountShapeWitness ==
    /\ pc = "end"
    /\ N = 4
    /\ ArrayLen(array) = 10
    /\ Len(items) = 3
    /\ items[3].len = 2

\* the sum of the lens of the items of s
RECURSIVE SumLen(_)
SumLen(s) == IF s = <<>> THEN 0 ELSE Head(s).len + SumLen(Tail(s))

\* C4: the k-th batch (k = 0, 1, ...) covers the indices [k*N, k*N + len): the
\* cursor is N times the number of batches yielded, lane i < len holds the
\* element at k*N + i, every lane from len on holds 0, and a drained iterator
\* has covered every index of the array.
LaneCoverage ==
    /\ pc \in {"iter", "end"} => idx = N * Len(items)
    /\ \A k \in 1..Len(items) :
          /\ Len(items[k].data) = N
          /\ \A i \in 0..(N - 1) :
                items[k].data[i + 1] =
                    IF i < items[k].len THEN array.data[(k - 1) * N + i + 1] ELSE 0
          /\ k < Len(items) => (k - 1) * N + items[k].len = k * N
    /\ Drained => SumLen(items) = ArrayLen(array)

LaneCoverageWitness ==
    /\ pc = "end"
    /\ N = 8
    /\ Len(items) = 2
    /\ items[2].len = 2
    /\ items[2].data = <<8, 9, 0, 0, 0, 0, 0, 0>>
    /\ idx = 16

\* C5: batch_iter with a width above the word's bit count panics and nothing
\* is ever produced; with a width within it the iterator starts at cursor 0.
FailFast ==
    /\ pc # "start" => (pc = "panicked" <=> N > WordBits)
    /\ pc = "panicked" =>
          items = <<>> /\ lastRead = <<>> /\ collected = <<>> /\ total = <<>>
    /\ (pc = "iter" /\ items = <<>>) => idx = 0

FailFastWitness == pc = "panicked" /\ N > WordBits /\ ArrayLen(array) > 0

\* C6: the bytes a step reads, ceil(len/8) of them from byte floor(idx/8),
\* lie inside the validity buffer of ceil(L/8) bytes and fit in the word.
ReadInBounds ==
    Stepped =>
        /\ LastCall.off = LastCall.idx \div 8
        /\ LastCall.n = CeilDiv(LastItem.len, 8)
        /\ LastCall.off + LastCall.n <= CeilDiv(ArrayLen(array), 8)
        /\ LastCall.off + LastCall.n <= Len(ValidBuffer(array))
        /\ LastCall.n <= WordBytes

ReadInBoundsWitness ==
    /\ Stepped
    /\ LastCall.idx = 8
    /\ LastItem.len < N
    /\ LastCall.off + LastCall.n = Len(ValidBuffer(array))

\* C7: every bit of a batch's mask at a position from len on is 0.
HighBitsZero ==
    Stepped => \A i \in LastItem.len..(WordBits - 1) : ~Bit(LastItem.valid, i)

\* C10: a batch that starts at a cursor that is not a multiple of 8 (only a
\* width that is not a multiple of 8 gets there) carries the byte-aligned
\* read: bit i of its mask, i < 8*ceil(len/8), is the validity buffer's bit
\* at 8*floor(idx/8) + i.
Misaligned ==
    (Stepped /\ LastCall.idx % 8 # 0) =>
        /\ N % 8 # 0
        /\ \A i \in 0..(8 * CeilDiv(LastItem.len, 8) - 1) :
              Bit(LastItem.valid, i) = BufferBit(array, 8 * (LastCall.idx \div 8) + i)

\* a collected run of such a width whose batch at a misaligned cursor differs
\* from the true validity below len, and whose result has another validity
MisalignedWitness ==
    /\ pc = "collected"
    /\ N \in {1, 2, 4}
    /\ collected[1].valid # array.valid
    /\ \E k \in 1..Len(items) :
          /\ ((k - 1) * N) % 8 # 0
          /\ \E i \in 0..(items[k].len - 1) :
                Bit(items[k].valid, i) # ValidAt(array, (k - 1) * N + i)

\* where item k (1-based) of s starts in the concatenation
StartOf(s, k) == SumLen(SubSeq(s, 1, k - 1))

Concatenates(a, s) ==
    /\ Len(a.data) = SumLen(s)
    /\ Len(a.valid) = SumLen(s)
    /\ \A k \in 1..Len(s) : \A i \in 1..s[k].len :
          /\ a.data[StartOf(s, k) + i] = s[k].data[i]
          /\ a.valid[StartOf(s, k) + i] = ((s[k].valid \div (2 ^ (i - 1))) % 2 = 1)

\* C8: the collector returns the concatenation, in order, of each item's
\* first len lanes and low len mask bits; its length is the sum of the lens;
\* lanes and mask bits from len on, and the size hint, do not reach the result.
CollectorConcat ==
    /\ pc = "c_loop" => Concatenates(Finish(builder), SubSeq(input, 1, pos))
    /\ pc = "c_done" => Concatenates(collected[1], input)

CollectorConcatWitness ==
    /\ pc = "c_done"
    /\ hint = 2
    /\ N = 2
    /\ input[1] = [data |-> <<1, 2>>, valid |-> 3, len |-> 1]
    /\ input[2] = [data |-> <<2, 1>>, valid |-> 2, len |-> 2]
    /\ collected[1] = [data |-> <<1, 2, 1>>, valid |-> <<TRUE, FALSE, TRUE>>]

\* the NULL slots of a (1-based)
NullSlots(a) == {p \in 1..ArrayLen(a) : ~a.valid[p]}

NullSlotsZero(a) == \A p \in NullSlots(a) : a.data[p] = 0

\* the sum of the elements stored in non-NULL slots, and in NULL slots
NonNullSum(a) == SeqSum([p \in 1..ArrayLen(a) |-> IF a.valid[p] THEN a.data[p] ELSE 0])
NullSum(a) == SeqSum([p \in 1..ArrayLen(a) |-> IF a.valid[p] THEN 0 ELSE a.data[p]])

\* C9 as stated: the sum over the batch sequence of an array is the sum of
\* all its stored elements, those in NULL slots included, whatever the
\* validity; it is the sum of the non-NULL elements only when every NULL slot
\* stores 0.
SumOnlyWhenNullsZero ==
    pc = "summed" =>
        /\ total[1] = SeqSum(array.data)
        /\ total[1] = NonNullSum(array) => NullSlotsZero(array)

\* C9 as amended: the sum over the batch sequence of an array is the sum of
\* all its stored elements, those in NULL slots included, whatever the
\* validity; it is the sum of the non-NULL elements exactly when the values
\* stored in the NULL slots add up to 0, so whenever every NULL slot stores 0.
SumIgnoresValidity ==
    pc = "summed" =>
        /\ total[1] = SeqSum(array.data)
        /\ NullSlotsZero(array) => total[1] = NonNullSum(array)
        /\ total[1] = NonNullSum(array) <=> NullSum(array) = 0

SumIgnoresValidityWitness ==
    /\ pc = "summed"
    /\ Len(items) = 2
    /\ NullSlots(array) # {}
    /\ ~NullSlotsZero(array)
    /\ total[1] # NonNullSum(array)

====
